---------------------------- MODULE Spec2Model ----------------------------
(***************************************************************************)
(* Model of mars_inventory_analyzer.py: a CSV inventory is read into a     *)
(* list of dicts, sorted by flammability, filtered at a threshold and the  *)
(* dangerous records are written back as CSV.                              *)
(*                                                                         *)
(* A text is a sequence of symbols.  A symbol is one character ("," " "    *)
(* "." and the digits) or an atomic run of letters ("Substance", "Al").    *)
(* A float is the integer number of 10^-FracDigits units it holds.         *)
(* A dict is a sequence of [key, val] entries in insertion order.          *)
(***************************************************************************)
EXTENDS Integers, Sequences, FiniteSets, TLC

VARIABLES inFile, outFile, outBefore, pc, inventory_data, sorted_data,
          dangerous_materials, reloaded, exc, thr, cur, prev, hist

vars == <<inFile, outFile, outBefore, pc, inventory_data, sorted_data,
          dangerous_materials, reloaded, exc, thr, cur, prev, hist>>

\* Largest number of data rows of an input file.
MaxRows == 3

\* Largest number of library calls chained on one dataset.
MaxCalls == 2

\* Decimal digits a float of the model carries after the point.
FracDigits == 3

RECURSIVE Pow10(_)
Pow10(n) == IF n = 0 THEN 1 ELSE 10 * Pow10(n - 1)

\* The number of model units in 1.0.
Scale == Pow10(FracDigits)

----------------------------------------------------------------------------
(* str.strip, str.split(','), ','.join, str.lower *)

IsSpace(c) == c = " "

RECURSIVE LStrip(_)
LStrip(s) ==
    IF s = <<>> THEN <<>>
    ELSE IF IsSpace(Head(s)) THEN LStrip(Tail(s)) ELSE s

RECURSIVE RStrip(_)
RStrip(s) ==
    IF s = <<>> THEN <<>>
    ELSE IF IsSpace(s[Len(s)]) THEN RStrip(SubSeq(s, 1, Len(s) - 1)) ELSE s

Strip(s) == RStrip(LStrip(s))

RECURSIVE SplitFrom(_, _, _)
SplitFrom(s, field, acc) ==
    IF s = <<>> THEN Append(acc, field)
    ELSE IF Head(s) = ","
         THEN SplitFrom(Tail(s), <<>>, Append(acc, field))
         ELSE SplitFrom(Tail(s), Append(field, Head(s)), acc)

Split(s) == SplitFrom(s, <<>>, <<>>)

RECURSIVE Join(_)
Join(fields) ==
    IF fields = <<>> THEN <<>>
    ELSE IF Len(fields) = 1 THEN fields[1]
    ELSE fields[1] \o <<",">> \o Join(Tail(fields))

LowerSym(c) ==
    CASE c = "Flammability" -> "flammability"
      [] c = "FLAMMABILITY" -> "flammability"
      [] c = "Substance" -> "substance"
      [] c = "Weight" -> "weight"
      [] OTHER -> c

Lower(s) == [i \in 1..Len(s) |-> LowerSym(s[i])]

\* The two accepted column names; "inhwaseong" stands for the Korean word.
FlammabilityNames == {<<"flammability">>, <<"inhwaseong">>}

IsFlammabilityName(k) == Lower(k) \in FlammabilityNames

----------------------------------------------------------------------------
(* float(text) and f'{x:.2f}' *)

Digits == <<"0", "1", "2", "3", "4", "5", "6", "7", "8", "9">>

IsDigit(c) == \E i \in 1..10 : Digits[i] = c

DigitVal(c) == (CHOOSE i \in 1..10 : Digits[i] = c) - 1

RECURSIVE DigitsVal(_)
DigitsVal(s) ==
    IF s = <<>> THEN 0 ELSE 10 * DigitsVal(SubSeq(s, 1, Len(s) - 1)) + DigitVal(s[Len(s)])

AllDigits(s) == \A i \in 1..Len(s) : IsDigit(s[i])

\* The text forms of float() the model reads: digits, and digits "." digits
\* with one side possibly empty.  Anything else is a ValueError.
IsFloatText(s) ==
    LET dots == {i \in 1..Len(s) : s[i] = "."} IN
    IF dots = {}
    THEN s # <<>> /\ AllDigits(s)
    ELSE /\ Cardinality(dots) = 1
         /\ Len(s) > 1
         /\ \A i \in 1..Len(s) : i \in dots \/ IsDigit(s[i])

\* float(text) of a text float() accepts, in model units.  Digits beyond
\* FracDigits are below the model's resolution.
FloatOf(s) ==
    LET dots == {i \in 1..Len(s) : s[i] = "."}
        dot  == IF dots = {} THEN Len(s) + 1 ELSE CHOOSE i \in dots : TRUE
        ip   == SubSeq(s, 1, dot - 1)
        fall == SubSeq(s, dot + 1, Len(s))
        fp   == IF Len(fall) > FracDigits THEN SubSeq(fall, 1, FracDigits) ELSE fall
    IN  DigitsVal(ip) * Scale + DigitsVal(fp) * Pow10(FracDigits - Len(fp))

RECURSIVE NatText(_)
NatText(n) ==
    IF n < 10 THEN <<Digits[n + 1]>>
    ELSE Append(NatText(n \div 10), Digits[(n % 10) + 1])

\* The hundredths f'{x:.2f}' prints for x >= 0: the nearest, an exact tie to even.
\* (A decimal text ending in 5 is seldom an exact tie as a binary float; the
\* inputs hold no such text.)
Hundredths(x) ==
    LET unit == Scale \div 100
        q    == x \div unit
        r    == x % unit
    IN  IF 2 * r > unit THEN q + 1
        ELSE IF 2 * r < unit THEN q
        ELSE IF q % 2 = 0 THEN q ELSE q + 1

Format2f(x) ==
    LET h == Hundredths(x) IN
    NatText(h \div 100) \o <<".", Digits[((h \div 10) % 10) + 1], Digits[(h % 10) + 1]>>

----------------------------------------------------------------------------
(* dict values and dicts *)

FloatVal(n) == [isfloat |-> TRUE, num |-> n, str |-> <<>>]

StrVal(s) == [isfloat |-> FALSE, num |-> 0, str |-> s]

DictKeys(d) == [i \in 1..Len(d) |-> d[i].key]

HasKey(d, k) == \E i \in 1..Len(d) : d[i].key = k

DictGet(d, k) == d[CHOOSE i \in 1..Len(d) : d[i].key = k].val

DictSet(d, k, v) ==
    IF HasKey(d, k)
    THEN [i \in 1..Len(d) |-> IF d[i].key = k THEN [key |-> k, val |-> v] ELSE d[i]]
    ELSE Append(d, [key |-> k, val |-> v])

----------------------------------------------------------------------------
(* files *)

\* A path that names no file.
NoFile == [exists |-> FALSE, lines |-> <<>>]

FileOf(ls) == [exists |-> TRUE, lines |-> ls]

\* A byte that is not UTF-8: decoding the file raises UnicodeDecodeError.
BadByte == "<FF>"

Decodable(ls) == \A i \in 1..Len(ls) : \A j \in 1..Len(ls[i]) : ls[i][j] # BadByte

----------------------------------------------------------------------------
(* read_csv_file *)

\* RowDict with the text of a cell kept where float() raises ValueError.
RECURSIVE RowDictKeepsText(_, _, _, _)
RowDictKeepsText(header, values, i, row_dict) ==
    IF i > Len(values) THEN row_dict
    ELSE LET k == Strip(header[i])
             v == Strip(values[i])
             x == IF IsFlammabilityName(k) /\ IsFloatText(v)
                  THEN FloatVal(FloatOf(v))
                  ELSE StrVal(v)
         IN  RowDictKeepsText(header, values, i + 1, DictSet(row_dict, k, x))

\* RowDict with header[i] as the key, not header[i].strip().
RECURSIVE RowDictRawKeys(_, _, _, _)
RowDictRawKeys(header, values, i, row_dict) ==
    IF i > Len(values) THEN row_dict
    ELSE LET k == header[i]
             v == Strip(values[i])
             x == IF IsFlammabilityName(Strip(k))
                  THEN IF IsFloatText(v) THEN FloatVal(FloatOf(v)) ELSE FloatVal(0)
                  ELSE StrVal(v)
         IN  RowDictRawKeys(header, values, i + 1, DictSet(row_dict, k, x))

\* The inner loop: for i, value in enumerate(values).
RECURSIVE RowDict(_, _, _, _)
RowDict(header, values, i, row_dict) ==
    IF i > Len(values) THEN row_dict
    ELSE LET k == Strip(header[i])
             v == Strip(values[i])
             x == IF IsFlammabilityName(k)
                  THEN IF IsFloatText(v) THEN FloatVal(FloatOf(v)) ELSE FloatVal(0)
                  ELSE StrVal(v)
         IN  RowDict(header, values, i + 1, DictSet(row_dict, k, x))

\* ReadRows with the loop left at the first row that does not match.
RECURSIVE ReadRowsStopAtMismatch(_, _, _)
ReadRowsStopAtMismatch(rows, header, data) ==
    IF rows = <<>> THEN data
    ELSE LET line   == Strip(Head(rows))
             values == Split(line)
         IN  IF line = <<>> THEN ReadRowsStopAtMismatch(Tail(rows), header, data)
             ELSE IF Len(values) = Len(header)
             THEN ReadRowsStopAtMismatch(Tail(rows), header,
                                         Append(data, RowDict(header, values, 1, <<>>)))
             ELSE data

\* The outer loop: for line in lines[1:].
RECURSIVE ReadRows(_, _, _)
ReadRows(rows, header, data) ==
    IF rows = <<>> THEN data
    ELSE LET line   == Strip(Head(rows))
             values == Split(line)
         IN  IF line # <<>> /\ Len(values) = Len(header)
             THEN ReadRows(Tail(rows), header,
                           Append(data, RowDict(header, values, 1, <<>>)))
             ELSE ReadRows(Tail(rows), header, data)

\* The body of the try block: the data built, and the exception that left it.
ReadBody(file) ==
    IF ~file.exists THEN [data |-> <<>>, exc |-> "FileNotFoundError"]
    ELSE IF ~Decodable(file.lines) THEN [data |-> <<>>, exc |-> "UnicodeDecodeError"]
    ELSE IF file.lines = <<>> THEN [data |-> <<>>, exc |-> "none"]
    ELSE [data |-> ReadRows(Tail(file.lines), Split(Strip(file.lines[1])), <<>>),
          exc  |-> "none"]

\* read_csv_file with FileNotFoundError as its only except clause.
ReadCsvFileNarrowExcept(file) ==
    LET r == ReadBody(file) IN
    IF r.exc = "FileNotFoundError" THEN [data |-> <<>>, exc |-> "none"] ELSE r

\* Every except clause returns [].
ReadCsvFile(file) ==
    LET r == ReadBody(file) IN
    IF r.exc # "none" THEN [data |-> <<>>, exc |-> "none"] ELSE r

----------------------------------------------------------------------------
(* sort_by_flammability, filter_dangerous_materials *)

\* The first key of data[0] that names flammability, or none.
FlammabilityKey(data) ==
    IF data = <<>> THEN [found |-> FALSE, key |-> <<>>]
    ELSE LET ks   == DictKeys(data[1])
             hits == {i \in 1..Len(ks) : IsFlammabilityName(ks[i])}
         IN  IF hits = {} THEN [found |-> FALSE, key |-> <<>>]
             ELSE [found |-> TRUE,
                   key   |-> ks[CHOOSE i \in hits : \A j \in hits : i <= j]]

\* item[key] raises KeyError for some item.
KeyMissing(data, k) == \E i \in 1..Len(data) : ~HasKey(data[i], k)

\* InsertDesc without reverse=True: ascending order.
RECURSIVE InsertAscending(_, _, _)
InsertAscending(sorted, item, k) ==
    IF sorted = <<>> THEN <<item>>
    ELSE IF DictGet(Head(sorted), k).num <= DictGet(item, k).num
         THEN <<Head(sorted)>> \o InsertAscending(Tail(sorted), item, k)
         ELSE <<item>> \o sorted

\* One item put into a list that is in descending order, behind its equals.
RECURSIVE InsertDesc(_, _, _)
InsertDesc(sorted, item, k) ==
    IF sorted = <<>> THEN <<item>>
    ELSE IF DictGet(Head(sorted), k).num >= DictGet(item, k).num
         THEN <<Head(sorted)>> \o InsertDesc(Tail(sorted), item, k)
         ELSE <<item>> \o sorted

Reverse(q) == [i \in 1..Len(q) |-> q[Len(q) + 1 - i]]

RECURSIVE SortedAscending(_, _, _)
SortedAscending(data, k, acc) ==
    IF data = <<>> THEN acc
    ELSE SortedAscending(Tail(data), k, InsertAscending(acc, Head(data), k))

\* sorted(data, key=...)[::-1]: descending, equal items in reverse input order.
SortedDescByReversal(data, k, acc) == Reverse(SortedAscending(data, k, acc))

\* sorted(data, key=..., reverse=True): descending and stable.
RECURSIVE SortedDesc(_, _, _)
SortedDesc(data, k, acc) ==
    IF data = <<>> THEN acc
    ELSE SortedDesc(Tail(data), k, InsertDesc(acc, Head(data), k))

SortByFlammability(data) ==
    LET fk == FlammabilityKey(data) IN
    IF ~fk.found THEN [data |-> data, exc |-> "none"]
    ELSE IF KeyMissing(data, fk.key) THEN [data |-> <<>>, exc |-> "KeyError"]
    ELSE [data |-> SortedDesc(data, fk.key, <<>>), exc |-> "none"]

\* FilterLoop with > for >=.
RECURSIVE FilterLoopStrict(_, _, _, _)
FilterLoopStrict(data, k, threshold, dangerous) ==
    IF data = <<>> THEN dangerous
    ELSE FilterLoopStrict(Tail(data), k, threshold,
                          IF DictGet(Head(data), k).num > threshold
                          THEN Append(dangerous, Head(data))
                          ELSE dangerous)

\* for item in data: if item[flammability_key] >= threshold: append.
RECURSIVE FilterLoop(_, _, _, _)
FilterLoop(data, k, threshold, dangerous) ==
    IF data = <<>> THEN dangerous
    ELSE FilterLoop(Tail(data), k, threshold,
                    IF DictGet(Head(data), k).num >= threshold
                    THEN Append(dangerous, Head(data))
                    ELSE dangerous)

\* filter_dangerous_materials returning its input, as the sort does, when no
\* column names the flammability.
FilterReturnsInput(data, threshold) ==
    LET fk == FlammabilityKey(data) IN
    IF ~fk.found THEN [data |-> data, exc |-> "none"]
    ELSE IF KeyMissing(data, fk.key) THEN [data |-> <<>>, exc |-> "KeyError"]
    ELSE [data |-> FilterLoop(data, fk.key, threshold, <<>>), exc |-> "none"]

FilterDangerousMaterials(data, threshold) ==
    LET fk == FlammabilityKey(data) IN
    IF ~fk.found THEN [data |-> <<>>, exc |-> "none"]
    ELSE IF KeyMissing(data, fk.key) THEN [data |-> <<>>, exc |-> "KeyError"]
    ELSE [data |-> FilterLoop(data, fk.key, threshold, <<>>), exc |-> "none"]

----------------------------------------------------------------------------
(* save_to_csv *)

\* str(value), or f'{value:.2f}' of a float.
ValueText(v) == IF v.isfloat THEN Format2f(v.num) ELSE v.str

\* The line of one item: its values under the headers, comma-joined.
ItemLine(item, headers) ==
    Join([j \in 1..Len(headers) |-> ValueText(DictGet(item, headers[j]))])

\* The lines written for the items; a KeyError ends the writing where it is.
RECURSIVE WriteItems(_, _, _)
WriteItems(data, headers, written) ==
    IF data = <<>> THEN written
    ELSE IF \E j \in 1..Len(headers) : ~HasKey(Head(data), headers[j])
         THEN written
         ELSE WriteItems(Tail(data), headers,
                         Append(written, ItemLine(Head(data), headers)))

\* save_to_csv without the header line.
SaveToCsvNoHeader(data, file) ==
    IF data = <<>> THEN file
    ELSE FileOf(WriteItems(data, DictKeys(data[1]), <<>>))

\* save_to_csv without its first check: the file is opened for writing, and
\* data[0] of an empty list raises IndexError, which is caught.
SaveToCsvNoGuard(data, file) ==
    IF data = <<>> THEN FileOf(<<>>)
    ELSE FileOf(WriteItems(data, DictKeys(data[1]), <<Join(DictKeys(data[1]))>>))

\* The file after save_to_csv(data, filename); no exception leaves it.
SaveToCsv(data, file) ==
    IF data = <<>> THEN file
    ELSE LET headers == DictKeys(data[1]) IN
         FileOf(WriteItems(data, headers, <<Join(headers)>>))

----------------------------------------------------------------------------
(* inputs *)

HeaderLines ==
    { <<"Substance", ",", "Flammability">>,
      <<" ", "Substance", " ", ",", " ", "Weight", " ">>,
      <<"FLAMMABILITY", ",", ",", "FLAMMABILITY">>,
      <<",", "inhwaseong">> }

RowLines ==
    { <<"Al", ",", "0", ".", "1">>,
      <<"O", ",", " ", "0", ".", "9", " ">>,
      <<"Si", ",", "0", ".", "9">>,
      <<"H", ",", "0", ".", "7">>,
      <<"Mg", ",", "0", ".", "7", "0", "4">>,
      <<"Kr", ",", "abc">>,
      <<" ">>,
      <<"Ne", ",", "x", ",", "0", ".", "9">> }

RECURSIVE SeqsUpTo(_, _)
SeqsUpTo(S, n) ==
    IF n = 0 THEN {<<>>}
    ELSE LET shorter == SeqsUpTo(S, n - 1) IN
         shorter \cup {Append(q, x) : q \in shorter, x \in S}

\* Files of one column, where a blank row has as many fields as the header.
OneColumnFiles ==
    {FileOf(<< <<"Flammability">> >> \o rows) :
        rows \in SeqsUpTo({<<" ">>, <<"0", ".", "8">>, <<>>}, 2)}

\* Files that hold a byte that does not decode, behind rows that do.
UndecodableFiles ==
    {FileOf(<<h, r, <<"Zn", ",", "0", ".", "9", BadByte>> >>) :
        h \in HeaderLines, r \in RowLines}

\* Mars_Base_Inventory_List.csv: missing, empty, or a header and its rows.
InputFiles ==
    {NoFile, FileOf(<<>>)} \cup OneColumnFiles \cup UndecodableFiles \cup
    {FileOf(<<h>> \o rows) : h \in HeaderLines, rows \in SeqsUpTo(RowLines, MaxRows)}

\* Mars_Base_Inventory_danger.csv before the run: missing, or left by an earlier run.
StaleFile == FileOf(<< <<"Substance", ",", "Flammability">>, <<"Old", ",", "0", ".", "9", "9">> >>)

OutputFiles == {NoFile, StaleFile}

\* The threshold main passes: 0.7.
DangerThreshold == (7 * Scale) \div 10

\* Thresholds of library calls: 0.1, 0.7, 0.701, 0.9.
Thresholds == {Scale \div 10, DangerThreshold, (701 * Scale) \div 1000, (9 * Scale) \div 10}

----------------------------------------------------------------------------
(* main, and a later read_csv_file of the file it wrote *)

Init ==
    /\ inFile \in InputFiles
    /\ outFile \in OutputFiles
    /\ outBefore = outFile
    /\ pc = "start"
    /\ inventory_data = <<>>
    /\ sorted_data = <<>>
    /\ dangerous_materials = <<>>
    /\ reloaded = <<>>
    /\ exc = "none"
    /\ thr = DangerThreshold
    /\ cur = <<>>
    /\ prev = <<>>
    /\ hist = <<>>

Main ==
    /\ pc = "start"
    /\ \E rd \in {ReadCsvFile(inFile)} :
       \E so \in {SortByFlammability(rd.data)} :
       \E fi \in {FilterDangerousMaterials(so.data, DangerThreshold)} :
           IF rd.exc # "none"
           THEN /\ exc' = rd.exc
                /\ pc' = "crashed"
                /\ UNCHANGED <<inventory_data, sorted_data, dangerous_materials, outFile>>
           ELSE IF rd.data = <<>>
           THEN /\ inventory_data' = rd.data
                /\ pc' = "done"
                /\ UNCHANGED <<sorted_data, dangerous_materials, outFile, exc>>
           ELSE IF so.exc # "none"
           THEN /\ inventory_data' = rd.data
                /\ exc' = so.exc
                /\ pc' = "crashed"
                /\ UNCHANGED <<sorted_data, dangerous_materials, outFile>>
           ELSE IF fi.exc # "none"
           THEN /\ inventory_data' = rd.data
                /\ sorted_data' = so.data
                /\ exc' = fi.exc
                /\ pc' = "crashed"
                /\ UNCHANGED <<dangerous_materials, outFile>>
           ELSE /\ inventory_data' = rd.data
                /\ sorted_data' = so.data
                /\ dangerous_materials' = fi.data
                /\ outFile' = IF fi.data # <<>> THEN SaveToCsv(fi.data, outFile) ELSE outFile
                /\ pc' = "done"
                /\ UNCHANGED exc
    /\ UNCHANGED <<inFile, outBefore, reloaded, thr, cur, prev, hist>>

Reload ==
    /\ pc = "done"
    /\ \E rd \in {ReadCsvFile(outFile)} :
       IF rd.exc # "none"
       THEN exc' = rd.exc /\ pc' = "crashed" /\ UNCHANGED reloaded
       ELSE reloaded' = rd.data /\ pc' = "reloaded" /\ UNCHANGED exc
    /\ UNCHANGED <<inFile, outFile, outBefore, inventory_data, sorted_data,
                   dangerous_materials, thr, cur, prev, hist>>

Next == Main \/ Reload

Spec == Init /\ [][Next]_vars

----------------------------------------------------------------------------
(* the two transformations called as a library, in any order *)

LoadedDatasets == {ReadCsvFile(f).data : f \in InputFiles}

LibInit ==
    /\ inFile = NoFile
    /\ outFile = NoFile
    /\ outBefore = NoFile
    /\ pc = "lib"
    /\ inventory_data \in LoadedDatasets
    /\ sorted_data = <<>>
    /\ dangerous_materials = <<>>
    /\ reloaded = <<>>
    /\ exc = "none"
    /\ thr \in Thresholds
    /\ cur = inventory_data
    /\ prev = inventory_data
    /\ hist = <<>>

LibSort ==
    /\ pc = "lib"
    /\ Len(hist) < MaxCalls
    /\ \E r \in {SortByFlammability(cur)} :
       IF r.exc # "none"
       THEN exc' = r.exc /\ pc' = "crashed" /\ UNCHANGED <<cur, prev, hist>>
       ELSE /\ cur' = r.data
            /\ prev' = cur
            /\ hist' = Append(hist, "sort")
            /\ UNCHANGED <<exc, pc>>
    /\ UNCHANGED <<inFile, outFile, outBefore, inventory_data, sorted_data,
                   dangerous_materials, reloaded, thr>>

LibFilter ==
    /\ pc = "lib"
    /\ Len(hist) < MaxCalls
    /\ \E r \in {FilterDangerousMaterials(cur, thr)} :
       IF r.exc # "none"
       THEN exc' = r.exc /\ pc' = "crashed" /\ UNCHANGED <<cur, prev, hist>>
       ELSE /\ cur' = r.data
            /\ prev' = cur
            /\ hist' = Append(hist, "filter")
            /\ UNCHANGED <<exc, pc>>
    /\ UNCHANGED <<inFile, outFile, outBefore, inventory_data, sorted_data,
                   dangerous_materials, reloaded, thr>>

LibNext == LibSort \/ LibFilter

LibSpec == LibInit /\ [][LibNext]_vars

----------------------------------------------------------------------------
(* what the claims speak of, said without the program's loops *)

AfterMain == pc \in {"done", "reloaded", "crashed"}

Readable(file) == file.exists /\ Decodable(file.lines) /\ file.lines # <<>>

NumCommas(s) == Cardinality({i \in 1..Len(s) : s[i] = ","})

IsBlank(s) == \A i \in 1..Len(s) : s[i] = " "

\* The header's column names, trimmed, in column order.
ColumnNames(file) ==
    LET hdr == Split(Strip(file.lines[1])) IN [j \in 1..Len(hdr) |-> Strip(hdr[j])]

\* The column names with each repeated name kept once, where it first stands.
DistinctColumnNames(file) ==
    LET names  == ColumnNames(file)
        firsts == {j \in 1..Len(names) : \A i \in 1..(j - 1) : names[i] # names[j]}
    IN  [n \in 1..Cardinality(firsts) |->
            names[CHOOSE j \in firsts : Cardinality({i \in firsts : i <= j}) = n]]

\* The columns whose value a record keeps: the last of each name.
KeptColumns(file) ==
    LET names == ColumnNames(file) IN
    {j \in 1..Len(names) : \A i \in (j + 1)..Len(names) : names[i] # names[j]}

\* A data row with as many comma-separated fields as the header, and not blank.
RowMatches(file, row) == ~IsBlank(row) /\ NumCommas(row) = NumCommas(file.lines[1])

\* The data rows that match, in file order.
MatchingRows(file) ==
    LET Keep(row) == RowMatches(file, row) IN SelectSeq(Tail(file.lines), Keep)

\* The j-th field of a row, trimmed.
Field(row, j) == Strip(Split(Strip(row))[j])

\* The number each cell text of the inputs stands for, in model units; a text
\* that is no number stands for 0.0.
NumberOf(text) ==
    CASE text = <<"0", ".", "1">> -> Scale \div 10
      [] text = <<"0", ".", "7">> -> (7 * Scale) \div 10
      [] text = <<"0", ".", "7", "0", "4">> -> (704 * Scale) \div 1000
      [] text = <<"0", ".", "8">> -> (8 * Scale) \div 10
      [] text = <<"0", ".", "9">> -> (9 * Scale) \div 10
      [] text \in {<<"abc">>, <<"x">>, <<>>, <<"Al">>, <<"O">>, <<"Si">>, <<"H">>,
                   <<"Mg">>, <<"Kr">>, <<"Ne">>} -> 0
      [] OTHER -> -1

\* The flammability of a record: the value under its first flammability-named key.
Flam(item) ==
    LET hits == {i \in 1..Len(item) : IsFlammabilityName(item[i].key)} IN
    item[CHOOSE i \in hits : \A j \in hits : i <= j].val.num

HasFlamColumn(data) ==
    data # <<>> /\ \E i \in 1..Len(data[1]) : IsFlammabilityName(data[1][i].key)

NoFlamColumn(data) ==
    \A n \in 1..Len(data) : \A i \in 1..Len(data[n]) : ~IsFlammabilityName(data[n][i].key)

Descending(data) ==
    \A i \in 1..(Len(data) - 1) : Flam(data[i]) >= Flam(data[i + 1])

----------------------------------------------------------------------------
\* C4: read_csv_file returns one record per non-blank data row whose field
\* count equals the header's, in file order, and nothing for any other row:
\* the n-th record holds the trimmed fields of the n-th matching row.
C4_DropsExactlyMismatchedRows ==
    (AfterMain /\ Readable(inFile)) =>
        LET rows  == MatchingRows(inFile)
            names == ColumnNames(inFile)
        IN  /\ Len(inventory_data) = Len(rows)
            /\ \A n \in 1..Len(rows) : \A j \in KeptColumns(inFile) :
                  /\ HasKey(inventory_data[n], names[j])
                  /\ IsFlammabilityName(names[j])
                       \/ DictGet(inventory_data[n], names[j]) = StrVal(Field(rows[n], j))

\* A file of three rows whose middle row has a field too many: the rows
\* around it are both loaded.
C4_Witness ==
    /\ pc = "done"
    /\ Readable(inFile)
    /\ Len(inFile.lines) = 4
    /\ NumCommas(inFile.lines[1]) = 1
    /\ NumCommas(inFile.lines[3]) = 2
    /\ Len(inventory_data) = 2
    /\ inventory_data[1] # inventory_data[2]

\* C5: in every loaded record each flammability-named field is a float: the
\* number its cell text stands for, 0.0 when the text is no number; the row
\* of such a cell is loaded like any other and the other rows are as they are.
C5_FlammabilityIsNumber ==
    (AfterMain /\ Readable(inFile)) =>
        LET rows  == MatchingRows(inFile)
            names == ColumnNames(inFile)
        IN  /\ pc # "crashed"
            /\ Len(inventory_data) = Len(rows)
            /\ \A n \in 1..Len(rows) : \A j \in KeptColumns(inFile) :
                  IF IsFlammabilityName(names[j])
                  THEN DictGet(inventory_data[n], names[j]) = FloatVal(NumberOf(Field(rows[n], j)))
                  ELSE ~DictGet(inventory_data[n], names[j]).isfloat

\* A row whose flammability cell is "abc" is loaded as 0.0 between two rows
\* whose cells are numbers.
C5_Witness ==
    /\ pc = "done"
    /\ Len(inventory_data) = 3
    /\ Field(inFile.lines[3], 2) = <<"abc">>
    /\ Flam(inventory_data[2]) = 0
    /\ Flam(inventory_data[1]) > 0
    /\ Flam(inventory_data[3]) > 0

\* C6: when the input file does not exist or cannot be read, read_csv_file
\* returns the empty list and raises nothing: main ends without a record,
\* without an exception and without touching the output file.
C6_ReadFailureYieldsEmpty ==
    (pc # "start" /\ pc # "lib" /\ (~inFile.exists \/ ~Decodable(inFile.lines))) =>
        /\ inventory_data = <<>>
        /\ exc = "none"
        /\ pc \in {"done", "reloaded"}
        /\ outFile = outBefore

\* The read fails on a byte that follows a well-formed row.
C6_Witness ==
    /\ pc = "done"
    /\ inFile.exists
    /\ ~Decodable(inFile.lines)
    /\ Len(inFile.lines) = 3
    /\ RowMatches(inFile, inFile.lines[2])
    /\ inventory_data = <<>>

\* C9: every loaded record has the same keys in the same order, the trimmed
\* column names of the header (a repeated name once); sorting and filtering
\* keep them, and every line of a written file has one field per key.
C9_SameKeysEverywhere ==
    (AfterMain /\ Readable(inFile)) =>
        LET keys == DistinctColumnNames(inFile) IN
        /\ \A n \in 1..Len(inventory_data) : DictKeys(inventory_data[n]) = keys
        /\ \A n \in 1..Len(sorted_data) : DictKeys(sorted_data[n]) = keys
        /\ \A n \in 1..Len(dangerous_materials) : DictKeys(dangerous_materials[n]) = keys
        /\ dangerous_materials # <<>> =>
              /\ pc # "crashed"
              /\ Len(outFile.lines) = 1 + Len(dangerous_materials)
              /\ outFile.lines[1] = Join(keys)
              /\ \A n \in 1..Len(outFile.lines) :
                    NumCommas(outFile.lines[n]) + 1 = Len(keys)

\* The header repeats a name and has a blank one; two records are written.
C9_Witness ==
    /\ pc = "done"
    /\ Readable(inFile)
    /\ Len(DistinctColumnNames(inFile)) < Len(ColumnNames(inFile))
    /\ \E j \in 1..Len(ColumnNames(inFile)) : ColumnNames(inFile)[j] = <<>>
    /\ Len(dangerous_materials) = 2
    /\ outFile # outBefore

----------------------------------------------------------------------------
\* x to the nearest hundredth, in model units.
Round2(x) ==
    LET unit == Scale \div 100 IN ((2 * x + unit) \div (2 * unit)) * unit

\* A record with every float of it rounded to the nearest hundredth.
Rounded(item) ==
    [i \in 1..Len(item) |->
        IF item[i].val.isfloat
        THEN [key |-> item[i].key, val |-> FloatVal(Round2(item[i].val.num))]
        ELSE item[i]]

\* An input as the program expects it: distinct, non-blank column names, one
\* of them the flammability, and every row a full row with a number in it.
WellFormed(file) ==
    /\ Readable(file)
    /\ LET names == ColumnNames(file) IN
       /\ \A j \in 1..Len(names) : names[j] # <<>>
       /\ Len(DistinctColumnNames(file)) = Len(names)
       /\ Cardinality({j \in 1..Len(names) : IsFlammabilityName(names[j])}) = 1
       /\ \A n \in 2..Len(file.lines) :
             /\ RowMatches(file, file.lines[n])
             /\ \A j \in 1..Len(names) :
                   IsFlammabilityName(names[j]) => NumberOf(Field(file.lines[n], j)) > 0

\* C1 as stated: reading back the file main wrote gives records that are
\* each equal to a loaded record, flammability included, each at or above
\* 0.7, in descending order of flammability.
C1_ReloadedAreOriginalRecords ==
    (pc = "reloaded" /\ WellFormed(inFile) /\ dangerous_materials # <<>>) =>
        /\ \A i \in 1..Len(reloaded) :
              /\ \E j \in 1..Len(inventory_data) : reloaded[i] = inventory_data[j]
              /\ Flam(reloaded[i]) >= DangerThreshold
        /\ Descending(reloaded)

\* C1 amended: reading back the file main wrote gives records that are each
\* equal to a loaded record with its float values rounded to two decimals,
\* each at or above 0.7, in descending order of flammability.
C1_ReloadedAreRoundedRecords ==
    (pc = "reloaded" /\ dangerous_materials # <<>>) =>
        /\ reloaded # <<>>
        /\ \A i \in 1..Len(reloaded) :
              /\ \E j \in 1..Len(inventory_data) : reloaded[i] = Rounded(inventory_data[j])
              /\ Flam(reloaded[i]) >= DangerThreshold
        /\ Descending(reloaded)

\* Two records are read back, and one of them is no loaded record: its
\* flammability was rounded by the writer.
C1_Witness ==
    /\ pc = "reloaded"
    /\ WellFormed(inFile)
    /\ Len(reloaded) = 2
    /\ \E i \in 1..2 : \A j \in 1..Len(inventory_data) : reloaded[i] # inventory_data[j]

\* C7: main writes the output file exactly when a loaded record has
\* flammability at or above 0.7, and then every data line of the file holds
\* a flammability at or above 0.7, one line per such record; in every other
\* run the file is as it was before.  save_to_csv of an empty list leaves the
\* file as it is.
C7_WrittenOnlyWhenDangerous ==
    /\ AfterMain =>
          IF HasFlamColumn(inventory_data)
             /\ \E n \in 1..Len(inventory_data) : Flam(inventory_data[n]) >= DangerThreshold
          THEN /\ pc # "crashed"
               /\ outFile.exists
               /\ outFile # outBefore
               /\ Len(outFile.lines) - 1 =
                     Cardinality({n \in 1..Len(inventory_data) :
                                     Flam(inventory_data[n]) >= DangerThreshold})
               /\ LET names == ColumnNames(outFile)
                      col   == CHOOSE j \in 1..Len(names) :
                                  /\ IsFlammabilityName(names[j])
                                  /\ \A i \in 1..(j - 1) : ~IsFlammabilityName(names[i])
                  IN  \A n \in 2..Len(outFile.lines) :
                         /\ IsFloatText(Field(outFile.lines[n], col))
                         /\ FloatOf(Field(outFile.lines[n], col)) >= DangerThreshold
          ELSE outFile = outBefore
    /\ SaveToCsv(<<>>, outFile) = outFile

\* A run that replaces the file an earlier run left, from an input that also
\* holds a record below the threshold.
C7_Witness ==
    /\ pc = "done"
    /\ outBefore = StaleFile
    /\ outFile # outBefore
    /\ \E n \in 1..Len(inventory_data) : Flam(inventory_data[n]) < DangerThreshold
    /\ Len(dangerous_materials) = 2

\* C8: when no column is named flammability, sort_by_flammability returns
\* its input as it is and filter_dangerous_materials returns the empty list;
\* main ends without an exception and the output file is as it was.
C8_NoFlammabilityColumn ==
    (AfterMain /\ inventory_data # <<>> /\ NoFlamColumn(inventory_data)) =>
        /\ sorted_data = inventory_data
        /\ dangerous_materials = <<>>
        /\ exc = "none"
        /\ pc \in {"done", "reloaded"}
        /\ outFile = outBefore

\* Three different records without a flammability column went through main,
\* and the file of an earlier run is still there.
C8_Witness ==
    /\ pc = "done"
    /\ Len(inventory_data) = 3
    /\ inventory_data[1] # inventory_data[2]
    /\ inventory_data[2] # inventory_data[3]
    /\ NoFlamColumn(inventory_data)
    /\ outFile = StaleFile

----------------------------------------------------------------------------
(* the library calls *)

LastCall == IF hist = <<>> THEN "none" ELSE hist[Len(hist)]

LastTwoCalls == IF Len(hist) < 2 THEN <<>> ELSE SubSeq(hist, Len(hist) - 1, Len(hist))

\* C2: filter_dangerous_materials(data, t) of a dataset with a flammability
\* column is the records of data whose flammability is >= t, in input order.
C2_FilterKeepsAtLeastThreshold ==
    (pc = "lib" /\ LastCall = "filter" /\ HasFlamColumn(prev)) =>
        LET Kept(item) == Flam(item) >= thr IN cur = SelectSeq(prev, Kept)

\* The input holds a record at the threshold, one below it and one above it.
C2_Witness ==
    /\ hist = <<"filter">>
    /\ Len(prev) = 3
    /\ Flam(prev[1]) = thr
    /\ Flam(prev[2]) < thr
    /\ Flam(prev[3]) > thr
    /\ Len(cur) = 2

=============================================================================
